---- MODULE Spec2Model ----
(***************************************************************************)
(* Model of eeprom_spi.py: a logical EEPROM made of several 25xx1024 chips *)
(* that share one SPI bus and have one chip-select pin each.               *)
(*                                                                         *)
(* The driver is modelled statement by statement between bus events: one   *)
(* action holds the non-bus code that precedes a pin or SPI call and that  *)
(* call.  The chips are the environment: they see the frames the driver    *)
(* clocks out while their chip-select is low and act on a frame when the   *)
(* chip-select rises.                                                      *)
(***************************************************************************)
EXTENDS Integers, Sequences, FiniteSets

\* ------------------------------------------------------------------ bounds
\* Number of chips (len(cspins)).
NChips == 3
\* Longest buffer handed to readwrite.
MaxLen == 2
\* Number of public operations called on the object after construction.
MaxOps == 2

\* --------------------------------------------------------- program constants
_SIZE == 131072
_READ == 3
_WRITE == 2
_WREN == 6
_RDSR == 5
_RDID == 171
_CE == 199
\* 0x100 of _getaddr: the page size of the device.
PageSize == 256
\* The identity byte scan expects.
ExpectedId == 41
\* self._ccs = None
None == -1
\* The block size of the block protocol: blocknum << 9, _a_bytes >> 9, 512.
SectorSize == 512

Chips == 0 .. (NChips - 1)
c_bytes == _SIZE
a_bytes == _SIZE * NChips

\* ------------------------------------------------------------------ inputs
\* Start addresses: the last byte of the first page and the last byte of
\* each chip, then two addresses past the array and a negative address.
Addrs == {c * _SIZE + o : c \in Chips, o \in {PageSize - 1, _SIZE - 1}}
            \cup {a_bytes, a_bytes + PageSize, -1}
\* Data: buffers of 1..MaxLen distinct bytes, in two patterns.
Fill(b, n) == [i \in 1 .. n |-> b + i]
WriteBufs == {Fill(b, n) : b \in {16, 32}, n \in 1 .. MaxLen}
\* bytearray(n): the buffer a read is given.
ReadBufs == {[i \in 1 .. n |-> 0] : n \in 1 .. MaxLen}
Values == {17, 33}
\* What MISO carries while the device is not driving it.
MisoIdle == {0, 255}
\* The identity bytes a chip-select line may answer with.
IdBytes == {ExpectedId, 0}
\* The block-protect bits (BP1 BP0, status bits 3 and 2) of a chip.
BPValues == {0, 4}

Min(a, b) == IF a < b THEN a ELSE b

\* Block numbers: the first sector, the sectors on either side of the first
\* chip boundary, the last sector and the first one past the array.
Sectors == {0, (_SIZE \div SectorSize) - 1, _SIZE \div SectorSize,
            (a_bytes \div SectorSize) - 1, a_bytes \div SectorSize}
\* One sector of data whose two halves differ, in two patterns, and the
\* bytearray(512) a block read is given.
SectorBufs == {[i \in 1 .. SectorSize |-> (b + i) % 251] : b \in {16, 32}}
SectorZero == [i \in 1 .. SectorSize |-> 0]
\* The op argument of ioctl: sector count, sector size, and one it ignores.
IoctlOps == {4, 5, 6}

\* do_slice: a slice bound is <<>> for None or <<b>> for the integer b.
\* start and stop default to 0 and _a_bytes; a negative bound has _a_bytes
\* added; nothing else is done to the bounds.
DoSlice(s) ==
    LET start == IF s.start = <<>> THEN 0 ELSE s.start[1]
        stop == IF s.stop = <<>> THEN a_bytes ELSE s.stop[1]
    IN  [start |-> IF start >= 0 THEN start ELSE a_bytes + start,
         stop |-> IF stop >= 0 THEN stop ELSE a_bytes + stop]
\* Slice bounds: omitted, small, at a chip boundary, negative, and beyond
\* either end of the array.  The slices tried are those of at most MaxLen
\* bytes (empty and reversed ones included).
SliceStarts == {<<>>, <<0 - MaxLen>>, <<_SIZE - 1>>, <<0 - (a_bytes + 1)>>, <<a_bytes - 1>>}
SliceStops == {<<>>, <<1>>, <<_SIZE + 1>>, <<0 - a_bytes>>, <<a_bytes + 1>>}
Slices ==
    {s \in [start : SliceStarts, stop : SliceStops] :
        DoSlice(s).stop - DoSlice(s).start <= MaxLen}

\* ----------------------------------------------------------------- helpers
\* mvp[:k] of the 5-byte command buffer (indexed 0..4 as in the source).
Slice(m, k) == [i \in 1 .. k |-> m[i - 1]]
\* mvb[start : start + n]
SubBuf(buf, start, n) == [i \in 1 .. n |-> buf[start + i]]
\* cs(0) and cs(1) on the pin of chip c.
CsLow(p, c) == [p EXCEPT ![c] = 0]
CsHigh_Stuck(p, c) == p
CsHigh(p, c) == [p EXCEPT ![c] = 1]

\* _getaddr: the range check, the chip and offset, the three address bytes
\* and the number of bytes that can be processed in the current page.
\* self._cspins[ca] indexes a Python sequence: -NChips .. -1 count from the
\* end, anything else outside 0 .. NChips-1 raises IndexError.
GetAddr_OffByOne(addr, nbytes) ==
    LET ca == addr \div c_bytes
        la == addr % c_bytes
        pe == (addr - (addr % 256)) + 256
    IN  IF addr > a_bytes
        THEN [err |-> "AddressOutOfRange", ccs |-> None, la |-> 0, npage |-> 0]
        ELSE IF ca \notin (0 - NChips) .. (NChips - 1)
        THEN [err |-> "IndexError", ccs |-> None, la |-> 0, npage |-> 0]
        ELSE [err |-> "none",
              ccs |-> IF ca < 0 THEN NChips + ca ELSE ca,
              la |-> la,
              npage |-> Min(nbytes, pe - la)]
GetAddr_NoSplit(addr, nbytes) ==
    LET ca == addr \div c_bytes
        la == addr % c_bytes
    IN  IF addr >= a_bytes
        THEN [err |-> "AddressOutOfRange", ccs |-> None, la |-> 0, npage |-> 0]
        ELSE IF ca \notin (0 - NChips) .. (NChips - 1)
        THEN [err |-> "IndexError", ccs |-> None, la |-> 0, npage |-> 0]
        ELSE [err |-> "none",
              ccs |-> IF ca < 0 THEN NChips + ca ELSE ca,
              la |-> la,
              npage |-> nbytes]
GetAddr(addr, nbytes) ==
    LET ca == addr \div c_bytes
        la == addr % c_bytes
        pe == (addr - (addr % 256)) + 256
    IN  IF addr >= a_bytes
        THEN [err |-> "AddressOutOfRange", ccs |-> None, la |-> 0, npage |-> 0]
        ELSE IF ca \notin (0 - NChips) .. (NChips - 1)
        THEN [err |-> "IndexError", ccs |-> None, la |-> 0, npage |-> 0]
        ELSE [err |-> "none",
              ccs |-> IF ca < 0 THEN NChips + ca ELSE ca,
              la |-> la,
              npage |-> Min(nbytes, pe - la)]
\* mvp[1] = la >> 16; mvp[2] = (la >> 8) & 0xff; mvp[3] = la & 0xff
LoadAddr_StaleHigh(m, la) ==
    [m EXCEPT ![2] = (la \div 256) % 256, ![3] = la % 256]
LoadAddr(m, la) ==
    [m EXCEPT ![1] = la \div 65536, ![2] = (la \div 256) % 256, ![3] = la % 256]

\* ------------------------------------------------------------- the device
\* The 24-bit address of a READ or WRITE frame; the chip decodes 17 bits.
FrameAddr(mosi) == (mosi[2] * 65536 + mosi[3] * 256 + mosi[4]) % _SIZE
\* A cell never written since the last erase reads 0xFF.
ReadCell(m, off) == IF off \in DOMAIN m THEN m[off] ELSE 255
\* A read burst: n bytes from la on, the address counter rolling over at the
\* end of the chip.  Reads do not wrap at a page boundary.
DevRead(m, la, n) == [i \in 1 .. n |-> ReadCell(m, (la + i - 1) % _SIZE)]
\* A write burst: the address counter wraps inside the 256-byte page.
PageTarget(la, i) == (la - (la % PageSize)) + ((la + i - 1) % PageSize)
DevProgram(m, la, data) ==
    LET targets == {PageTarget(la, i) : i \in 1 .. Len(data)}
    IN  [o \in (DOMAIN m) \cup targets |->
            IF o \in targets
            THEN data[CHOOSE i \in 1 .. Len(data) :
                        /\ PageTarget(la, i) = o
                        /\ \A k \in 1 .. Len(data) : PageTarget(la, k) = o => k <= i]
            ELSE m[o]]
\* The status register as RDSR returns it: WIP, WEL and the BP bits.
Status(busy, latch, bp) ==
    (IF busy THEN 1 ELSE 0) + (IF latch THEN 2 ELSE 0) + bp

VARIABLES
    pc,     \* the driver's position
    op,     \* the operation in progress, or the last one: its arguments and locals
    mvp,    \* self._bufp through self._mvp, indexed 0..4
    ccs,    \* self._ccs: the chip whose pin is current, or None
    pins,   \* the level of each chip-select pin (0 = selected)
    bus,    \* the frame of the open chip-select scope: bytes out, data in
    mem,    \* each chip's written cells (a cell not in the domain is erased)
    wip,    \* each chip's write-in-progress bit
    wel,    \* each chip's write-enable latch
    log,    \* the frames of the operation so far, each with chip and response
    err,    \* how the last operation ended: "none" or the exception
    ret,    \* the bytes the last operation returned
    nops,   \* operations called so far
    prev    \* the operation before the current one

vars == <<pc, op, mvp, ccs, pins, bus, mem, wip, wel, log, err, ret, nops, prev>>

NoBus == [mosi |-> <<>>, miso |-> <<>>]
NoPrev == [kind |-> "none", addr |-> 0, buf |-> <<>>, read |-> FALSE, err |-> "none",
           wip0 |-> [c \in Chips |-> FALSE], blk |-> FALSE]

\* A finished frame enters the log when chip-select rises; a status poll that
\* repeats the previous entry is logged once.
LogFrame(l, c, b) ==
    LET e == [chip |-> c, mosi |-> b.mosi, miso |-> b.miso]
    IN  IF Len(l) > 0 /\ l[Len(l)] = e /\ e.mosi[1] = _RDSR THEN l ELSE Append(l, e)

\* What a chip does with the frame when its chip-select rises.  While a write
\* cycle is in progress the chip acts on nothing but RDSR.
DevCommit(c, mosi) ==
    IF Len(mosi) = 1 /\ mosi[1] = _WREN /\ ~wip[c]
    THEN /\ wel' = [wel EXCEPT ![c] = TRUE]
         /\ UNCHANGED <<mem, wip>>
    ELSE IF Len(mosi) >= 5 /\ mosi[1] = _WRITE /\ wel[c] /\ ~wip[c]
    THEN /\ mem' = [mem EXCEPT ![c] =
                      DevProgram(mem[c], FrameAddr(mosi), SubSeq(mosi, 5, Len(mosi)))]
         /\ wip' = [wip EXCEPT ![c] = TRUE]
         /\ wel' = [wel EXCEPT ![c] = FALSE]
    ELSE IF Len(mosi) = 1 /\ mosi[1] = _CE /\ wel[c] /\ ~wip[c]
    THEN /\ mem' = [mem EXCEPT ![c] = <<>>]
         /\ wip' = [wip EXCEPT ![c] = TRUE]
         /\ wel' = [wel EXCEPT ![c] = FALSE]
    ELSE UNCHANGED <<mem, wip, wel>>

\* The end of a write or erase cycle inside chip c.
DeviceDone(c) ==
    /\ wip[c]
    /\ wip' = [wip EXCEPT ![c] = FALSE]
    /\ UNCHANGED <<pc, op, mvp, ccs, pins, bus, mem, wel, log, err, ret, nops, prev>>

\* ------------------------------------------------------------ construction
\* No slice was given: the operation was called with an integer address.
NoSlice == [given |-> FALSE, start |-> <<>>, stop |-> <<>>, lo |-> 0, hi |-> 0]
NewOp(kind, addr, buf, read) ==
    [kind |-> kind, addr0 |-> addr, addr |-> addr, buf |-> buf, read |-> read,
     nbytes |-> Len(buf), start |-> 0, npage |-> 0, n |-> 0,
     ccs0 |-> ccs, mem0 |-> mem, wip0 |-> wip, sl |-> NoSlice, blk |-> FALSE]

Init ==
    /\ pc = "scan"
    /\ op = [kind |-> "init", addr0 |-> 0, addr |-> 0, buf |-> <<>>, read |-> FALSE,
             nbytes |-> 0, start |-> 0, npage |-> 0, n |-> 0,
             ccs0 |-> None, mem0 |-> [c \in Chips |-> <<>>],
             wip0 |-> [c \in Chips |-> FALSE], sl |-> NoSlice, blk |-> FALSE]
    /\ mvp = [i \in 0 .. 4 |-> 0]
    /\ ccs = None
    /\ pins = [c \in Chips |-> 1]
    /\ bus = NoBus
    /\ mem = [c \in Chips |-> <<>>]
    /\ wip = [c \in Chips |-> FALSE]
    /\ wel = [c \in Chips |-> FALSE]
    /\ log = <<>>
    /\ err = "none"
    /\ ret = <<>>
    /\ nops = 0
    /\ prev = NoPrev

\* scan: mvp[:] = b'\0\0\0\0\0'; mvp[0] = _RDID; cs(0)
ScanSelect ==
    /\ pc = "scan"
    /\ mvp' = [i \in 0 .. 4 |-> IF i = 0 THEN _RDID ELSE 0]
    /\ pins' = CsLow(pins, op.n)
    /\ bus' = NoBus
    /\ pc' = "scan_xfer"
    /\ UNCHANGED <<op, ccs, mem, wip, wel, log, err, ret, nops, prev>>

\* scan: self._spi.write_readinto(mvp[:5], mvp[:5])
ScanXfer ==
    /\ pc = "scan_xfer"
    /\ \E id \in IdBytes, j \in MisoIdle :
        /\ bus' = [mosi |-> Slice(mvp, 5), miso |-> <<id>>]
        /\ mvp' = [i \in 0 .. 4 |-> IF i = 4 THEN id ELSE j]
    /\ pc' = "scan_cs1"
    /\ UNCHANGED <<op, ccs, pins, mem, wip, wel, log, err, ret, nops, prev>>

\* scan: the test of the identity byte, mvp[4] != 0x29 negated.
IdMatches_Any(m) == TRUE
IdMatches(m) == m[4] = ExpectedId
\* scan: cs(1); if mvp[4] != 0x29: raise RuntimeError('EEPROM not found at
\* cs[{}].'.format(n)); next chip.  op.n is the n the message names.
ScanDeselect ==
    /\ pc = "scan_cs1"
    /\ pins' = CsHigh(pins, op.n)
    /\ log' = LogFrame(log, op.n, bus)
    /\ bus' = NoBus
    /\ IF ~IdMatches(mvp)
       THEN /\ pc' = "dead"
            /\ err' = "ChipNotFound"
            /\ op' = op
       ELSE /\ err' = err
            /\ op' = [op EXCEPT !.n = op.n + 1]
            /\ pc' = IF op.n + 1 < NChips THEN "scan" ELSE "idle"
    /\ UNCHANGED <<mvp, ccs, mem, wip, wel, ret, nops, prev>>

\* ------------------------------------------------------- calls and returns
\* A public method is called on the constructed object.
Begin(kind, addr, buf, read) ==
    /\ pc = "idle"
    /\ nops < MaxOps
    /\ nops' = nops + 1
    /\ log' = <<>>
    /\ prev' = [kind |-> op.kind, addr |-> op.addr0, buf |-> op.buf,
                read |-> op.read, err |-> err, wip0 |-> op.wip0, blk |-> op.blk]
\* The operation goes on to position p.
Goto(p) == pc' = p /\ err' = "none" /\ ret' = <<>>
\* The operation ends with exception e.
Raise(e) == pc' = "idle" /\ err' = e /\ ret' = <<>>
\* The operation returns r.
Return(r) == pc' = "idle" /\ err' = "none" /\ ret' = r
\* spi.write / spi.readinto / spi.write_readinto inside the open scope.
Xfer(out, in) == bus' = [mosi |-> bus.mosi \o out, miso |-> bus.miso \o in]
\* cs(1): the frame is complete, the chip acts on it.
Deselect(c) ==
    /\ pins' = CsHigh(pins, c)
    /\ log' = LogFrame(log, c, bus)
    /\ bus' = NoBus
    /\ DevCommit(c, bus.mosi)

\* ------------------------------------------------------------ __getitem__
\* return mvp[4]
GetItemResult_Addr(m) == <<m[3]>>
GetItemResult(m) == <<m[4]>>

\* mvp[0] = _READ; self._getaddr(addr, 1); cs = self._ccs; cs(0)
GetItem(addr) ==
    /\ Begin("get", addr, <<>>, TRUE)
    /\ op' = NewOp("get", addr, <<>>, TRUE)
    /\ LET r == GetAddr(addr, 1)
           m0 == [mvp EXCEPT ![0] = _READ]
       IN  IF r.err # "none"
           THEN /\ Raise(r.err)
                /\ mvp' = m0
                /\ UNCHANGED <<ccs, pins, bus>>
           ELSE /\ Goto("get_xfer")
                /\ mvp' = LoadAddr(m0, r.la)
                /\ ccs' = r.ccs
                /\ pins' = CsLow(pins, r.ccs)
                /\ bus' = NoBus
    /\ UNCHANGED <<mem, wip, wel>>

\* self._spi.write_readinto(mvp[:5], mvp[:5]): the command and address go out
\* while MISO idles, the fifth byte is the cell read.  A chip in a write cycle
\* does not answer a READ.
GetItemXfer ==
    /\ pc = "get_xfer"
    /\ \E j \in MisoIdle :
        LET out == Slice(mvp, 5)
            data == IF wip[ccs] THEN <<j>> ELSE DevRead(mem[ccs], FrameAddr(out), 1)
        IN  /\ Xfer(out, data)
            /\ mvp' = [i \in 0 .. 4 |-> IF i = 4 THEN data[1] ELSE j]
    /\ pc' = "get_cs1"
    /\ UNCHANGED <<op, ccs, pins, mem, wip, wel, log, err, ret, nops, prev>>

\* cs(1); return mvp[4]
GetItemDeselect ==
    /\ pc = "get_cs1"
    /\ Deselect(ccs)
    /\ Return(GetItemResult(mvp))
    /\ UNCHANGED <<op, mvp, ccs, nops, prev>>

\* -------------------------------------------------------------- _wait_rdy
\* if not (mvp[1] & 1): break
WaitDone_Always(status) == TRUE
WaitDone(status) == status % 2 = 0
\* assert not mvp[1] & 0xC
Protected_Never(status) == FALSE
Protected(status) == (status \div 4) % 4 # 0
\* Where the caller of _wait_rdy goes on.
AfterWait(kind) ==
    CASE kind = "set" -> "idle"
      [] kind = "rw" -> "rw_next"
      [] kind = "erase" -> "er_next"

\* cs = self._ccs; mvp[0] = _RDSR; cs(0).  Calling None raises TypeError.
WaitSelect ==
    /\ pc = "wr_cs0"
    /\ mvp' = [mvp EXCEPT ![0] = _RDSR]
    /\ IF ccs = None
       THEN /\ Raise("TypeError")
            /\ UNCHANGED <<pins, bus>>
       ELSE /\ pc' = "wr_xfer"
            /\ pins' = CsLow(pins, ccs)
            /\ bus' = NoBus
            /\ UNCHANGED <<err, ret>>
    /\ UNCHANGED <<op, ccs, mem, wip, wel, log, nops, prev>>

\* self._spi.write_readinto(mvp[:2], mvp[:2])
WaitXfer ==
    /\ pc = "wr_xfer"
    /\ \E j \in MisoIdle, bp \in BPValues :
        LET st == Status(wip[ccs], wel[ccs], bp)
        IN  /\ Xfer(Slice(mvp, 2), <<st>>)
            /\ mvp' = [mvp EXCEPT ![0] = j, ![1] = st]
    /\ pc' = "wr_cs1"
    /\ UNCHANGED <<op, ccs, pins, mem, wip, wel, log, err, ret, nops, prev>>

\* cs(1); assert not mvp[1] & 0xC; if not (mvp[1] & 1): break; time.sleep_ms(1)
WaitDeselect ==
    /\ pc = "wr_cs1"
    /\ Deselect(ccs)
    /\ IF Protected(mvp[1])
       THEN Raise("AssertionError")
       ELSE /\ pc' = IF WaitDone(mvp[1]) THEN AfterWait(op.kind) ELSE "wr_cs0"
            /\ UNCHANGED <<err, ret>>
    /\ UNCHANGED <<op, mvp, ccs, nops, prev>>

\* ------------------------------------------------------------ __setitem__
\* mvp[0] = _WREN; self._getaddr(addr, 1); cs = self._ccs; cs(0)
SetItem(addr, value) ==
    /\ Begin("set", addr, <<value>>, FALSE)
    /\ op' = NewOp("set", addr, <<value>>, FALSE)
    /\ LET r == GetAddr(addr, 1)
           m0 == [mvp EXCEPT ![0] = _WREN]
       IN  IF r.err # "none"
           THEN /\ Raise(r.err)
                /\ mvp' = m0
                /\ UNCHANGED <<ccs, pins, bus>>
           ELSE /\ Goto("set_wren")
                /\ mvp' = LoadAddr(m0, r.la)
                /\ ccs' = r.ccs
                /\ pins' = CsLow(pins, r.ccs)
                /\ bus' = NoBus
    /\ UNCHANGED <<mem, wip, wel>>

\* self._spi.write(mvp[:1])
SetItemWrenXfer ==
    /\ pc = "set_wren"
    /\ Xfer(Slice(mvp, 1), <<>>)
    /\ pc' = "set_wren_cs1"
    /\ UNCHANGED <<op, mvp, ccs, pins, mem, wip, wel, log, err, ret, nops, prev>>

\* cs(1)
SetItemWrenDeselect ==
    /\ pc = "set_wren_cs1"
    /\ Deselect(ccs)
    /\ pc' = "set_wr_cs0"
    /\ UNCHANGED <<op, mvp, ccs, err, ret, nops, prev>>

\* mvp[0] = _WRITE; mvp[4] = value; cs(0)
SetItemWriteSelect ==
    /\ pc = "set_wr_cs0"
    /\ mvp' = [mvp EXCEPT ![0] = _WRITE, ![4] = op.buf[1]]
    /\ pins' = CsLow(pins, ccs)
    /\ bus' = NoBus
    /\ pc' = "set_wr_xfer"
    /\ UNCHANGED <<op, ccs, mem, wip, wel, log, err, ret, nops, prev>>

\* self._spi.write(mvp[:5])
SetItemWriteXfer ==
    /\ pc = "set_wr_xfer"
    /\ Xfer(Slice(mvp, 5), <<>>)
    /\ pc' = "set_wr_cs1"
    /\ UNCHANGED <<op, mvp, ccs, pins, mem, wip, wel, log, err, ret, nops, prev>>

\* cs(1)  # Trigger write; self._wait_rdy()
SetItemWriteDeselect ==
    /\ pc = "set_wr_cs1"
    /\ Deselect(ccs)
    /\ pc' = "wr_cs0"
    /\ UNCHANGED <<op, mvp, ccs, err, ret, nops, prev>>

\* -------------------------------------------------------------- readwrite
\* The branch of the loop body: the command loaded into mvp[0] before the
\* first cs(0) of the segment, and the position after it.
RwBranch_NoWren(read) ==
    IF read THEN [cmd |-> _READ, pc |-> "rw_rd_xfer"]
            ELSE [cmd |-> _WRITE, pc |-> "rw_wr_xfer"]
RwBranch(read) ==
    IF read THEN [cmd |-> _READ, pc |-> "rw_rd_xfer"]
            ELSE [cmd |-> _WREN, pc |-> "rw_wren"]

\* while nbytes > 0: npage = self._getaddr(addr, nbytes); cs = self._ccs;
\* assert npage > 0; mvp[0] = _READ or _WREN; cs(0) -- or return buf
RwHead(o) ==
    IF o.nbytes <= 0
    THEN /\ Return(IF o.blk /\ ~o.read THEN <<>> ELSE o.buf)
         /\ op' = o
         /\ UNCHANGED <<mvp, ccs, pins, bus>>
    ELSE LET r == GetAddr(o.addr, o.nbytes)
         IN  IF r.err # "none"
             THEN /\ Raise(r.err)
                  /\ op' = o
                  /\ UNCHANGED <<mvp, ccs, pins, bus>>
             ELSE IF r.npage <= 0
             THEN /\ Raise("AssertionError")
                  /\ op' = [o EXCEPT !.npage = r.npage]
                  /\ mvp' = LoadAddr(mvp, r.la)
                  /\ ccs' = r.ccs
                  /\ UNCHANGED <<pins, bus>>
             ELSE /\ Goto(RwBranch(o.read).pc)
                  /\ op' = [o EXCEPT !.npage = r.npage]
                  /\ mvp' = [LoadAddr(mvp, r.la) EXCEPT ![0] = RwBranch(o.read).cmd]
                  /\ ccs' = r.ccs
                  /\ pins' = CsLow(pins, r.ccs)
                  /\ bus' = NoBus

\* nbytes = len(buf); start = 0; the first pass through the loop head
ReadWrite(addr, buf, read) ==
    /\ Begin("rw", addr, buf, read)
    /\ RwHead(NewOp("rw", addr, buf, read))
    /\ UNCHANGED <<mem, wip, wel>>

\* self._spi.write(mvp[:4]); self._spi.readinto(mvb[start : start + npage])
RwReadXfer ==
    /\ pc = "rw_rd_xfer"
    /\ \E j \in MisoIdle :
        LET out == Slice(mvp, 4)
            data == IF wip[ccs] THEN [i \in 1 .. op.npage |-> j]
                    ELSE DevRead(mem[ccs], FrameAddr(out), op.npage)
        IN  /\ Xfer(out, data)
            /\ op' = [op EXCEPT !.buf = [i \in 1 .. Len(op.buf) |->
                        IF i > op.start /\ i <= op.start + op.npage
                        THEN data[i - op.start] ELSE op.buf[i]]]
    /\ pc' = "rw_rd_cs1"
    /\ UNCHANGED <<mvp, ccs, pins, mem, wip, wel, log, err, ret, nops, prev>>

\* cs(1)
RwReadDeselect ==
    /\ pc = "rw_rd_cs1"
    /\ Deselect(ccs)
    /\ pc' = "rw_next"
    /\ UNCHANGED <<op, mvp, ccs, err, ret, nops, prev>>

\* self._spi.write(mvp[:1])
RwWrenXfer ==
    /\ pc = "rw_wren"
    /\ Xfer(Slice(mvp, 1), <<>>)
    /\ pc' = "rw_wren_cs1"
    /\ UNCHANGED <<op, mvp, ccs, pins, mem, wip, wel, log, err, ret, nops, prev>>

\* cs(1)
RwWrenDeselect ==
    /\ pc = "rw_wren_cs1"
    /\ Deselect(ccs)
    /\ pc' = "rw_wr_cs0"
    /\ UNCHANGED <<op, mvp, ccs, err, ret, nops, prev>>

\* mvp[0] = _WRITE; cs(0)
RwWriteSelect ==
    /\ pc = "rw_wr_cs0"
    /\ mvp' = [mvp EXCEPT ![0] = _WRITE]
    /\ pins' = CsLow(pins, ccs)
    /\ bus' = NoBus
    /\ pc' = "rw_wr_xfer"
    /\ UNCHANGED <<op, ccs, mem, wip, wel, log, err, ret, nops, prev>>

\* self._spi.write(mvp[:4]); self._spi.write(mvb[start: start + npage])
RwWriteXfer ==
    /\ pc = "rw_wr_xfer"
    /\ Xfer(Slice(mvp, 4) \o SubBuf(op.buf, op.start, op.npage), <<>>)
    /\ pc' = "rw_wr_cs1"
    /\ UNCHANGED <<op, mvp, ccs, pins, mem, wip, wel, log, err, ret, nops, prev>>

\* cs(1)  # Trigger write start; self._wait_rdy()
RwWriteDeselect ==
    /\ pc = "rw_wr_cs1"
    /\ Deselect(ccs)
    /\ pc' = "wr_cs0"
    /\ UNCHANGED <<op, mvp, ccs, err, ret, nops, prev>>

\* nbytes -= npage; start += npage; addr += npage
Advance_NoAddr(o) ==
    [o EXCEPT !.nbytes = o.nbytes - o.npage,
              !.start = o.start + o.npage]
Advance(o) ==
    [o EXCEPT !.nbytes = o.nbytes - o.npage,
              !.start = o.start + o.npage,
              !.addr = o.addr + o.npage]
\* The end of the loop body and the loop head that follows it.
RwNext ==
    /\ pc = "rw_next"
    /\ RwHead(Advance(op))
    /\ UNCHANGED <<mem, wip, wel, log, nops, prev>>

\* ------------------------------------------------- slices of the array
\* The slice argument and what do_slice made of it, kept with the operation.
Sliced(o, s) ==
    [o EXCEPT !.sl = [given |-> TRUE, start |-> s.start, stop |-> s.stop,
                      lo |-> DoSlice(s).start, hi |-> DoSlice(s).stop]]
\* __getitem__(slice): start, stop = self.do_slice(addr);
\* buf = bytearray(stop - start); return self.readwrite(start, buf, True).
\* bytearray of a negative length raises.
GetSlice(s) ==
    LET r == DoSlice(s)
        buf == [i \in 1 .. (r.stop - r.start) |-> 0]
        o == Sliced(NewOp("rw", r.start, buf, TRUE), s)
    IN  /\ Begin("rw", r.start, buf, TRUE)
        /\ IF r.stop - r.start < 0
           THEN /\ Raise("ValueError")
                /\ op' = o
                /\ UNCHANGED <<mvp, ccs, pins, bus>>
           ELSE RwHead(o)
        /\ UNCHANGED <<mem, wip, wel>>

\* __setitem__(slice, value): if len(value) == (stop - start)
SliceLenOk_Any(n, start, stop) == TRUE
SliceLenOk(n, start, stop) == n = stop - start
\* __setitem__(slice, value): start, stop = self.do_slice(addr); the length
\* test; return self.readwrite(start, value, False) or raise
\* RuntimeError('Slice must have same length as data').  value is a buffer,
\* so len(value) does not raise TypeError.
SetSlice(s, value) ==
    LET r == DoSlice(s)
        o == Sliced(NewOp("rw", r.start, value, FALSE), s)
    IN  /\ Begin("rw", r.start, value, FALSE)
        /\ IF SliceLenOk(Len(value), r.start, r.stop)
           THEN RwHead(o)
           ELSE /\ Raise("LengthMismatch")
                /\ op' = o
                /\ UNCHANGED <<mvp, ccs, pins, bus>>
        /\ UNCHANGED <<mem, wip, wel>>

\* ------------------------------------------------------ block protocol
\* blocknum << 9
BlockAddr(blocknum) == blocknum * 512
\* readblocks: return self.readwrite(blocknum << 9, buf, True)
ReadBlocks(blocknum, buf) ==
    /\ Begin("rw", BlockAddr(blocknum), buf, TRUE)
    /\ RwHead([NewOp("rw", BlockAddr(blocknum), buf, TRUE) EXCEPT !.blk = TRUE])
    /\ UNCHANGED <<mem, wip, wel>>
\* writeblocks: self.readwrite(blocknum << 9, buf, False); returns None
WriteBlocks(blocknum, buf) ==
    /\ Begin("rw", BlockAddr(blocknum), buf, FALSE)
    /\ RwHead([NewOp("rw", BlockAddr(blocknum), buf, FALSE) EXCEPT !.blk = TRUE])
    /\ UNCHANGED <<mem, wip, wel>>
\* ioctl: op 4 returns self._a_bytes >> 9, op 5 returns 512, any other op
\* falls off the end and returns None.  n keeps the op argument.
IoctlResult(o) ==
    IF o = 4 THEN <<a_bytes \div 512>>
    ELSE IF o = 5 THEN <<SectorSize>>
    ELSE <<>>
Ioctl(o) ==
    /\ Begin("ioctl", 0, <<>>, TRUE)
    /\ op' = [NewOp("ioctl", 0, <<>>, TRUE) EXCEPT !.n = o, !.blk = TRUE]
    /\ Return(IoctlResult(o))
    /\ UNCHANGED <<mvp, ccs, pins, bus, mem, wip, wel>>

\* ------------------------------------------------------------------ erase
\* for cs in self._cspins: mvp[0] = _WREN; cs(0) -- or return
ErHead(o) ==
    IF o.n >= NChips
    THEN /\ Return(<<>>)
         /\ op' = o
         /\ UNCHANGED <<mvp, pins, bus>>
    ELSE /\ Goto("er_wren")
         /\ op' = o
         /\ mvp' = [mvp EXCEPT ![0] = _WREN]
         /\ pins' = CsLow(pins, o.n)
         /\ bus' = NoBus

Erase ==
    /\ Begin("erase", 0, <<>>, FALSE)
    /\ ErHead(NewOp("erase", 0, <<>>, FALSE))
    /\ UNCHANGED <<ccs, mem, wip, wel>>

\* self._spi.write(mvp[:1])  # Enable write
EraseWrenXfer ==
    /\ pc = "er_wren"
    /\ Xfer(Slice(mvp, 1), <<>>)
    /\ pc' = "er_wren_cs1"
    /\ UNCHANGED <<op, mvp, ccs, pins, mem, wip, wel, log, err, ret, nops, prev>>

\* cs(1)
EraseWrenDeselect ==
    /\ pc = "er_wren_cs1"
    /\ Deselect(op.n)
    /\ pc' = "er_ce_cs0"
    /\ UNCHANGED <<op, mvp, ccs, err, ret, nops, prev>>

\* mvp[0] = _CE; cs(0)
EraseCeSelect ==
    /\ pc = "er_ce_cs0"
    /\ mvp' = [mvp EXCEPT ![0] = _CE]
    /\ pins' = CsLow(pins, op.n)
    /\ bus' = NoBus
    /\ pc' = "er_ce_xfer"
    /\ UNCHANGED <<op, ccs, mem, wip, wel, log, err, ret, nops, prev>>

\* self._spi.write(mvp[:1])  # Start erase
EraseCeXfer ==
    /\ pc = "er_ce_xfer"
    /\ Xfer(Slice(mvp, 1), <<>>)
    /\ pc' = "er_ce_cs1"
    /\ UNCHANGED <<op, mvp, ccs, pins, mem, wip, wel, log, err, ret, nops, prev>>

\* cs(1); self._wait_rdy()  # Wait for erase to complete
EraseCeDeselect ==
    /\ pc = "er_ce_cs1"
    /\ Deselect(op.n)
    /\ pc' = "wr_cs0"
    /\ UNCHANGED <<op, mvp, ccs, err, ret, nops, prev>>

\* the next chip of the for loop
EraseNext ==
    /\ pc = "er_next"
    /\ ErHead([op EXCEPT !.n = op.n + 1])
    /\ UNCHANGED <<ccs, mem, wip, wel, log, nops, prev>>

\* ---------------------------------------------------------- specification
Next ==
    \/ ScanSelect
    \/ ScanXfer
    \/ ScanDeselect
    \/ \E a \in Addrs : GetItem(a)
    \/ GetItemXfer
    \/ GetItemDeselect
    \/ \E a \in Addrs, v \in Values : SetItem(a, v)
    \/ SetItemWrenXfer
    \/ SetItemWrenDeselect
    \/ SetItemWriteSelect
    \/ SetItemWriteXfer
    \/ SetItemWriteDeselect
    \/ WaitSelect
    \/ WaitXfer
    \/ WaitDeselect
    \/ \E a \in Addrs, b \in WriteBufs : ReadWrite(a, b, FALSE)
    \/ \E a \in Addrs, b \in ReadBufs : ReadWrite(a, b, TRUE)
    \/ RwReadXfer
    \/ RwReadDeselect
    \/ RwWrenXfer
    \/ RwWrenDeselect
    \/ RwWriteSelect
    \/ RwWriteXfer
    \/ RwWriteDeselect
    \/ RwNext
    \/ Erase
    \/ EraseWrenXfer
    \/ EraseWrenDeselect
    \/ EraseCeSelect
    \/ EraseCeXfer
    \/ EraseCeDeselect
    \/ EraseNext
    \/ \E c \in Chips : DeviceDone(c)

Spec == Init /\ [][Next]_vars

\* The object used through slices only: eeprom[a:b] and eeprom[a:b] = value.
NextSlice ==
    \/ ScanSelect
    \/ ScanXfer
    \/ ScanDeselect
    \/ \E s \in Slices : GetSlice(s)
    \/ \E s \in Slices, b \in WriteBufs : SetSlice(s, b)
    \/ WaitSelect
    \/ WaitXfer
    \/ WaitDeselect
    \/ RwReadXfer
    \/ RwReadDeselect
    \/ RwWrenXfer
    \/ RwWrenDeselect
    \/ RwWriteSelect
    \/ RwWriteXfer
    \/ RwWriteDeselect
    \/ RwNext
    \/ \E c \in Chips : DeviceDone(c)

SpecSlice == Init /\ [][NextSlice]_vars

\* The object used as a block device: readblocks, writeblocks and ioctl.
NextBlock ==
    \/ ScanSelect
    \/ ScanXfer
    \/ ScanDeselect
    \/ \E n \in Sectors : ReadBlocks(n, SectorZero)
    \/ \E n \in Sectors, b \in SectorBufs : WriteBlocks(n, b)
    \/ \E o \in IoctlOps : Ioctl(o)
    \/ WaitSelect
    \/ WaitXfer
    \/ WaitDeselect
    \/ RwReadXfer
    \/ RwReadDeselect
    \/ RwWrenXfer
    \/ RwWrenDeselect
    \/ RwWriteSelect
    \/ RwWriteXfer
    \/ RwWriteDeselect
    \/ RwNext
    \/ \E c \in Chips : DeviceDone(c)

SpecBlock == Init /\ [][NextBlock]_vars

\* The object used through readwrite on ranges that start inside the array,
\* with the driver running on and every write cycle coming to its end.
RwAddrs == {a \in Addrs : a >= 0 /\ a < a_bytes}
\* One step of the code between two bus events.
DriverStep ==
    \/ ScanSelect
    \/ ScanXfer
    \/ ScanDeselect
    \/ WaitSelect
    \/ WaitXfer
    \/ WaitDeselect
    \/ RwReadXfer
    \/ RwReadDeselect
    \/ RwWrenXfer
    \/ RwWrenDeselect
    \/ RwWriteSelect
    \/ RwWriteXfer
    \/ RwWriteDeselect
    \/ RwNext
NextRw ==
    \/ DriverStep
    \/ \E a \in RwAddrs, b \in WriteBufs : ReadWrite(a, b, FALSE)
    \/ \E a \in RwAddrs, b \in ReadBufs : ReadWrite(a, b, TRUE)
    \/ \E c \in Chips : DeviceDone(c)
\* The interpreter goes on to the next statement (time.sleep_ms returns), and
\* a chip's internal write cycle ends.  Nothing obliges a caller to call.
FairRw ==
    /\ WF_vars(DriverStep)
    /\ \A c \in Chips : WF_vars(DeviceDone(c))
SpecRwFair == Init /\ [][NextRw]_vars /\ FairRw

\* ------------------------------------------------------------- properties
AllDeselected == \A c \in Chips : pins[c] = 1
Opcode(e) == e.mosi[1]
\* The data bytes of a WRITE frame.
BurstData(e) == SubSeq(e.mosi, 5, Len(e.mosi))
IsPoll(e, c) == Opcode(e) = _RDSR /\ e.chip = c
PollReady(e) == e.miso[1] % 2 = 0
\* A write transfer whose whole range lies inside the array.
RangeInside == op.addr0 >= 0 /\ Len(op.buf) >= 1 /\ op.addr0 + Len(op.buf) <= a_bytes
Returned == pc = "idle" /\ err = "none"

\* C1: every write burst of readwrite(addr, buf, False), for a range inside
\* the array, stays inside one 256-byte page of its chip:
\* (la mod 256) + n <= 256 for the burst's offset la and length n.
C1_BurstInOnePage ==
    (op.kind = "rw" /\ ~op.read /\ RangeInside) =>
        \A i \in 1 .. Len(log) :
            Opcode(log[i]) = _WRITE =>
                (FrameAddr(log[i].mosi) % 256) + Len(BurstData(log[i])) <= 256

\* C2: a write of B at A followed by a read of Len(B) bytes at A, the range
\* inside the array, returns B.
C2_RoundTrip ==
    (/\ Returned
     /\ op.kind = "rw" /\ op.read /\ RangeInside
     /\ prev.kind = "rw" /\ ~prev.read /\ prev.err = "none"
     /\ prev.addr = op.addr0 /\ Len(prev.buf) = Len(op.buf))
        => ret = prev.buf

\* C3: erase() polls the chip it has just sent the chip-erase command to,
\* does not start on the next chip before that chip has reported ready, is
\* not stopped by the state the object was in, and returns with every chip
\* idle.
C3_EraseWaitsForEachChip ==
    op.kind = "erase" =>
        /\ err # "TypeError"
        /\ \A i \in 1 .. Len(log) :
            Opcode(log[i]) = _RDSR =>
                \E k \in 1 .. (i - 1) :
                    /\ Opcode(log[k]) = _CE
                    /\ log[k].chip = log[i].chip
                    /\ \A m \in (k + 1) .. (i - 1) : Opcode(log[m]) = _RDSR
        /\ \A i \in 1 .. Len(log) :
            Opcode(log[i]) = _CE =>
                \A j \in (i + 1) .. Len(log) :
                    (\A k \in (i + 1) .. (j - 1) :
                        ~(IsPoll(log[k], log[i].chip) /\ PollReady(log[k])))
                    => IsPoll(log[j], log[i].chip)
        /\ Returned => \A c \in Chips : ~wip[c]

\* C4: a range operation that starts inside the array and ends past it is
\* rejected with the address-out-of-range error before any bus activity.
C4_OverlongRangeRejected ==
    (/\ op.kind = "rw" /\ Len(op.buf) >= 1
     /\ op.addr0 >= 0 /\ op.addr0 < a_bytes /\ op.addr0 + Len(op.buf) > a_bytes)
        => /\ pc = "idle"
           /\ err = "AddressOutOfRange"
           /\ log = <<>>
           /\ AllDeselected
           /\ mem = op.mem0

\* C5: for addr >= total capacity, single-byte get, single-byte set and
\* readwrite with a non-empty buffer fail with the address-out-of-range
\* error; no chip-select is toggled, nothing goes over the bus and _ccs is
\* left as it was.
C5_OutOfRangeRejected ==
    (/\ op.kind \in {"get", "set", "rw"}
     /\ op.addr0 >= a_bytes
     /\ op.kind = "rw" => Len(op.buf) >= 1)
        => /\ pc = "idle"
           /\ err = "AddressOutOfRange"
           /\ log = <<>>
           /\ bus = NoBus
           /\ AllDeselected
           /\ ccs = op.ccs0
           /\ mem = op.mem0
C5_Witness ==
    /\ op.kind = "rw" /\ ~op.read /\ op.addr0 = a_bytes
    /\ err = "AddressOutOfRange"
    /\ ccs # None

\* C6: single-byte get and set with addr < 0 fail with the address-out-of-
\* range error and issue no bus call.
C6_NegativeRejected ==
    (op.kind \in {"get", "set"} /\ op.addr0 < 0)
        => /\ pc = "idle"
           /\ err = "AddressOutOfRange"
           /\ log = <<>>
           /\ AllDeselected

\* C7: at most one chip-select line is low at any time (a scope is closed
\* before another is opened), and when an operation returns normally every
\* line is high.
C7_OneChipSelected ==
    /\ Cardinality({c \in Chips : pins[c] = 0}) <= 1
    /\ Returned => AllDeselected
C7_Witness ==
    /\ op.kind = "rw" /\ ~op.read /\ op.start > 0
    /\ pc = "wr_xfer"
    /\ pins[ccs] = 0
    /\ ccs # op.ccs0

\* C8: every WRITE and every chip-erase frame is immediately preceded by a
\* write-enable frame, alone in its own chip-select scope, on the same chip;
\* so write-enable is sent again for each burst of a transfer.
C8_WriteEnableFirst ==
    \A i \in 1 .. Len(log) :
        Opcode(log[i]) \in {_WRITE, _CE} =>
            /\ i > 1
            /\ log[i - 1].mosi = <<_WREN>>
            /\ log[i - 1].chip = log[i].chip
C8_Witness ==
    /\ Returned /\ op.kind = "rw"
    /\ \E i, k \in 1 .. Len(log) :
        i < k /\ Opcode(log[i]) = _WRITE /\ Opcode(log[k]) = _WRITE

\* C9: after a write burst the only frames until the written chip has
\* answered a status poll with write-in-progress clear are status polls of
\* that chip; the driver is nowhere else than in the wait; and when the set
\* or the write transfer returns, the chip last written is idle.
Unconfirmed(i) ==
    /\ Opcode(log[i]) = _WRITE
    /\ \A k \in (i + 1) .. Len(log) :
        ~(IsPoll(log[k], log[i].chip) /\ PollReady(log[k]))
C9_SegmentsSequential ==
    op.kind \in {"set", "rw"} =>
        /\ \A i \in 1 .. Len(log) :
            Opcode(log[i]) = _WRITE =>
                \A j \in (i + 1) .. Len(log) :
                    (\A k \in (i + 1) .. (j - 1) :
                        ~(IsPoll(log[k], log[i].chip) /\ PollReady(log[k])))
                    => IsPoll(log[j], log[i].chip)
        /\ \A i \in 1 .. Len(log) :
            Unconfirmed(i) =>
                \/ pc \in {"wr_cs0", "wr_xfer", "wr_cs1"} /\ ccs = log[i].chip
                \/ pc = "idle" /\ err # "none"
        /\ Returned =>
            \A i \in 1 .. Len(log) : Opcode(log[i]) = _WRITE => ~wip[log[i].chip]
C9_Witness ==
    /\ Returned /\ op.kind = "rw"
    /\ \E i, k \in 1 .. Len(log) :
        /\ i < k /\ Opcode(log[i]) = _WRITE /\ Opcode(log[k]) = _WRITE
        /\ log[i].chip # log[k].chip
        /\ \E m \in (i + 1) .. (k - 1) : IsPoll(log[m], log[i].chip) /\ ~PollReady(log[m])

\* C10: a single-element access and a one-byte transfer at the same address
\* do the same.  Both kinds of single-byte read put one READ frame for one
\* data byte on the bus, at the chip and offset of addr, and return the byte
\* the chip answered (the cell's content, the chip being idle at the call);
\* both kinds of single-byte write put write-enable, a one-byte WRITE and
\* status polls ending in ready on the bus, all on the chip of addr, leave
\* that chip selected in _ccs and (the chip being idle at the call) change
\* the one cell.  The right-hand sides do not depend on the kind.
SingleRead == op.kind = "get" \/ (op.kind = "rw" /\ op.read /\ Len(op.buf) = 1)
SingleWrite == op.kind = "set" \/ (op.kind = "rw" /\ ~op.read /\ Len(op.buf) = 1)
AddrInside == op.addr0 >= 0 /\ op.addr0 < a_bytes
ChipOf(addr) == addr \div _SIZE
OffsetOf(addr) == addr % _SIZE
C10_SingleAccessIsTransfer ==
    LET c == ChipOf(op.addr0)
        la == OffsetOf(op.addr0)
    IN  /\ (Returned /\ AddrInside /\ SingleRead) =>
            /\ Len(log) = 1
            /\ log[1].chip = c
            /\ Opcode(log[1]) = _READ
            /\ FrameAddr(log[1].mosi) = la
            /\ Len(log[1].miso) = 1
            /\ ret = log[1].miso
            /\ ~op.wip0[c] => ret = <<ReadCell(op.mem0[c], la)>>
            /\ ccs = c
            /\ mem = op.mem0
        /\ (Returned /\ AddrInside /\ SingleWrite) =>
            /\ Len(log) >= 3
            /\ log[1] = [chip |-> c, mosi |-> <<_WREN>>, miso |-> <<>>]
            /\ log[2].chip = c
            /\ Opcode(log[2]) = _WRITE
            /\ FrameAddr(log[2].mosi) = la
            /\ BurstData(log[2]) = op.buf
            /\ \A i \in 3 .. Len(log) : IsPoll(log[i], c)
            /\ PollReady(log[Len(log)])
            /\ ccs = c
            /\ ~op.wip0[c] =>
                mem = [op.mem0 EXCEPT ![c] =
                        [o \in (DOMAIN op.mem0[c]) \cup {la} |->
                            IF o = la THEN op.buf[1] ELSE op.mem0[c][o]]]
\* A set that follows a one-byte write transfer of another value to the same
\* cell on the second chip: both kinds of single-byte write have acted on it.
C10_Witness ==
    /\ Returned /\ op.kind = "set" /\ AddrInside /\ ChipOf(op.addr0) = 1
    /\ prev.kind = "rw" /\ ~prev.read /\ prev.err = "none"
    /\ prev.addr = op.addr0 /\ Len(prev.buf) = 1 /\ prev.buf # op.buf
    /\ ~op.wip0[1]

\* C11: with two or more chips, a write that starts in the last page of chip 0
\* and ends in the first page of chip 1 goes out as exactly two bursts, the
\* first from its start to the last byte of chip 0, the second from offset 0
\* of chip 1, each inside one page; and a read of the same range after the
\* write (chips 0 and 1 idle when the write was called) returns the data.
IsWrite(e) == Opcode(e) = _WRITE
\* The range of the operation starts in the last page of chip 0 and ends in
\* the first page of chip 1.
AcrossFirstBoundary ==
    /\ NChips >= 2
    /\ op.addr0 >= _SIZE - PageSize /\ op.addr0 < _SIZE
    /\ op.addr0 + Len(op.buf) > _SIZE
    /\ op.addr0 + Len(op.buf) <= _SIZE + PageSize
C11_ChipBoundarySplit ==
    /\ (Returned /\ op.kind = "rw" /\ ~op.read /\ AcrossFirstBoundary) =>
        LET W == SelectSeq(log, IsWrite)
            n1 == _SIZE - op.addr0
        IN  /\ Len(W) = 2
            /\ W[1].chip = 0
            /\ FrameAddr(W[1].mosi) = op.addr0
            /\ BurstData(W[1]) = SubSeq(op.buf, 1, n1)
            /\ FrameAddr(W[1].mosi) + n1 = _SIZE
            /\ W[2].chip = 1
            /\ FrameAddr(W[2].mosi) = 0
            /\ BurstData(W[2]) = SubSeq(op.buf, n1 + 1, Len(op.buf))
            /\ Len(BurstData(W[2])) <= PageSize
    /\ (/\ Returned /\ op.kind = "rw" /\ op.read /\ AcrossFirstBoundary
        /\ prev.kind = "rw" /\ ~prev.read /\ prev.err = "none"
        /\ prev.addr = op.addr0 /\ Len(prev.buf) = Len(op.buf)
        /\ ~prev.wip0[0] /\ ~prev.wip0[1])
            => ret = prev.buf
C11_Witness ==
    /\ Returned /\ op.kind = "rw" /\ op.read /\ AcrossFirstBoundary
    /\ prev.kind = "rw" /\ ~prev.read /\ prev.err = "none"
    /\ prev.addr = op.addr0 /\ Len(prev.buf) = Len(op.buf)
    /\ ret = prev.buf /\ ret[1] # ret[Len(ret)]

\* C15: scan queries the chips in chip-select order, each in its own scope of
\* select, identity query and deselect.  At the first chip whose identity byte
\* is not 0x29 the constructor raises the error that names that chip's index:
\* no later chip has been queried, every chip-select is high, and no operation
\* can follow.  When every chip answers 0x29 each chip has been selected
\* exactly once.
C15_ScanFailsFast ==
    /\ op.kind = "init" =>
        /\ \A i \in 1 .. Len(log) :
            /\ log[i].chip = i - 1
            /\ log[i].mosi = <<_RDID, 0, 0, 0, 0>>
        /\ \A i \in 1 .. (Len(log) - 1) : log[i].miso = <<ExpectedId>>
        /\ pc # "dead" => \A i \in 1 .. Len(log) : log[i].miso = <<ExpectedId>>
    /\ pc = "dead" =>
        /\ op.kind = "init" /\ err = "ChipNotFound"
        /\ Len(log) = op.n + 1
        /\ log[Len(log)].chip = op.n
        /\ log[Len(log)].miso # <<ExpectedId>>
        /\ AllDeselected /\ bus = NoBus
        /\ nops = 0
        /\ ~ENABLED Next
    /\ (pc = "idle" /\ op.kind = "init") =>
        /\ Len(log) = NChips
        /\ AllDeselected /\ bus = NoBus /\ err = "none"
\* The second chip fails: the first was queried, the third never is.
C15_Witness ==
    /\ pc = "dead" /\ op.n = 1 /\ NChips > 2
    /\ Len(log) = 2 /\ log[1].miso = <<ExpectedId>> /\ log[2].chip = 1

\* C16: for every address inside the array and every requested length n >= 1,
\* _getaddr selects chip addr div per_chip_capacity, loads the three address
\* bytes with the intra-chip offset addr mod per_chip_capacity, and returns
\* min(n, 256 - (offset mod 256)), on every chip.  Stated where readwrite has
\* just called _getaddr(addr, nbytes).
AddrBytes(la) == <<la \div 65536, (la \div 256) % 256, la % 256>>
C16_TranslationMatchesReference ==
    (pc \in {"rw_rd_xfer", "rw_wren"} /\ op.addr \in 0 .. (a_bytes - 1)) =>
        LET la == op.addr % c_bytes
        IN  /\ ccs = op.addr \div c_bytes
            /\ <<mvp[1], mvp[2], mvp[3]>> = AddrBytes(la)
            /\ op.npage = Min(op.nbytes, PageSize - (la % PageSize))

\* C19: every read or write burst of a transfer over a range inside the array
\* stays inside the selected chip, la + n <= per_chip_capacity for the burst's
\* offset la and length n, with any number of chips; and after a write called
\* with all chips idle, byte i of the buffer is at chip (addr + i) div
\* per_chip_capacity, offset (addr + i) mod per_chip_capacity.
BurstLen(e) == IF Opcode(e) = _READ THEN Len(e.miso) ELSE Len(BurstData(e))
C19_BurstInOneChip ==
    (op.kind = "rw" /\ RangeInside) =>
        /\ \A i \in 1 .. Len(log) :
            Opcode(log[i]) \in {_READ, _WRITE} =>
                FrameAddr(log[i].mosi) + BurstLen(log[i]) <= c_bytes
        /\ (Returned /\ ~op.read /\ \A c \in Chips : ~op.wip0[c]) =>
            \A i \in 0 .. (Len(op.buf) - 1) :
                ReadCell(mem[ChipOf(op.addr0 + i)], OffsetOf(op.addr0 + i))
                    = op.buf[i + 1]

\* C18: a status poll of _wait_rdy that reads a block-protect bit (status &
\* 0xC) ends the operation with the assertion failure, whether or not the
\* write-in-progress bit is clear: the poll is the last frame of the
\* operation, every chip-select is high and nothing is left on the bus, so
\* the remaining segments or chips are not processed; the segments a write
\* transfer finished before (on chips idle at the call) are in memory.
HasBP(e) == Opcode(e) = _RDSR /\ (e.miso[1] \div 4) % 4 # 0
C18_ProtectedAborts ==
    /\ \A i \in 1 .. Len(log) :
        HasBP(log[i]) =>
            /\ i = Len(log)
            /\ pc = "idle" /\ err = "AssertionError"
            /\ AllDeselected /\ bus = NoBus
    /\ (/\ Len(log) > 0 /\ HasBP(log[Len(log)])
        /\ op.kind = "rw" /\ RangeInside
        /\ \A c \in Chips : ~op.wip0[c]) =>
            /\ ~op.read
            /\ op.nbytes > 0
            /\ \A i \in 0 .. (op.start - 1) :
                ReadCell(mem[ChipOf(op.addr0 + i)], OffsetOf(op.addr0 + i))
                    = op.buf[i + 1]
\* The poll after the second segment reads BP set and WIP clear: the first
\* segment is in memory and the transfer stops with its count not reduced.
C18_Witness ==
    /\ pc = "idle" /\ err = "AssertionError"
    /\ op.kind = "rw" /\ ~op.read /\ RangeInside
    /\ op.start = 1 /\ op.nbytes = 1
    /\ Len(log) > 0 /\ HasBP(log[Len(log)]) /\ PollReady(log[Len(log)])
    /\ ReadCell(mem[ChipOf(op.addr0)], OffsetOf(op.addr0)) = op.buf[1]

\* C20: the command buffer is never sent stale.  In every READ and WRITE
\* frame on the bus, after any earlier operation, status poll or full-duplex
\* read, the first byte is the opcode of the branch taken, the three address
\* bytes are those of the intra-chip offset of the current segment, and the
\* one pin held low is that of the segment's chip; no other frame starts
\* with READ or WRITE.  Stated for segments that start inside the array.
ReadSent == pc \in {"get_cs1", "rw_rd_cs1"}
WriteSent == pc \in {"set_wr_cs1", "rw_wr_cs1"}
C20_CommandNeverStale ==
    /\ ((ReadSent \/ WriteSent) /\ op.addr \in 0 .. (a_bytes - 1)) =>
        /\ bus.mosi[1] = (IF ReadSent THEN _READ ELSE _WRITE)
        /\ <<bus.mosi[2], bus.mosi[3], bus.mosi[4]>> = AddrBytes(OffsetOf(op.addr))
        /\ \A c \in Chips : pins[c] = 0 <=> c = ChipOf(op.addr)
        /\ pc = "set_wr_cs1" => bus.mosi[5] = op.buf[1]
    /\ (bus.mosi # <<>> /\ bus.mosi[1] \in {_READ, _WRITE}) =>
        /\ ReadSent \/ WriteSent
        /\ ReadSent <=> op.read
\* The second operation follows a full-duplex read that left MISO bytes in
\* the buffer, and it sends the WRITE of its second segment after the status
\* polls of the first.
C20_Witness ==
    /\ pc = "rw_wr_cs1" /\ op.start = 1 /\ nops = 2
    /\ prev.kind = "get" /\ prev.err = "none"
    /\ \E i \in 1 .. Len(log) : Opcode(log[i]) = _RDSR
    /\ bus.mosi = <<_WRITE, 0, 0, 0, op.buf[2]>>
    /\ pins[1] = 0

\* C13: do_slice follows the slicing convention and always yields a pair of
\* non-negative indices: an omitted start becomes 0, an omitted stop becomes
\* the total capacity, a negative bound b becomes total capacity + b, and for
\* every start and stop, also those below -total or above total, the pair
\* satisfies 0 <= start and 0 <= stop <= total capacity.
C13_SliceNormalised ==
    op.sl.given =>
        /\ op.sl.start = <<>> => op.sl.lo = 0
        /\ op.sl.stop = <<>> => op.sl.hi = a_bytes
        /\ (op.sl.start # <<>> /\ op.sl.start[1] < 0) =>
                op.sl.lo = a_bytes + op.sl.start[1]
        /\ (op.sl.stop # <<>> /\ op.sl.stop[1] < 0) =>
                op.sl.hi = a_bytes + op.sl.stop[1]
        /\ 0 <= op.sl.lo
        /\ 0 <= op.sl.hi /\ op.sl.hi <= a_bytes

\* C14: a slice assignment whose data length differs from stop - start, the
\* bounds as do_slice returns them, raises the length error and does nothing
\* else: no frame is sent, every chip-select stays high, the command buffer
\* and the current chip are untouched and no chip's contents change.
C14_LengthMismatchNoEffect ==
    (op.sl.given /\ ~op.read /\ Len(op.buf) # op.sl.hi - op.sl.lo) =>
        /\ pc = "idle" /\ err = "LengthMismatch"
        /\ log = <<>> /\ bus = NoBus /\ AllDeselected
        /\ ccs = op.ccs0
        /\ mem = op.mem0
\* The mismatching assignment follows a slice write that returned, so there
\* are contents to keep.
C14_Witness ==
    /\ op.sl.given /\ ~op.read /\ Len(op.buf) # op.sl.hi - op.sl.lo
    /\ op.sl.hi - op.sl.lo >= 1
    /\ err = "LengthMismatch"
    /\ prev.kind = "rw" /\ ~prev.read /\ prev.err = "none"
    /\ \E c \in Chips : mem[c] # <<>>

\* C12: readblocks(n, buf) and writeblocks(n, buf) act on the logical range
\* [n*512, n*512 + len(buf)): a sector read after writeblocks(n, B), for any
\* sector n below the sector count and any number of chips, returns B (all
\* chips idle when the write was called); writing sector n changes no byte
\* outside that sector; ioctl(4) returns total capacity / 512 and ioctl(5)
\* returns 512.
SectorOf(addr) == addr \div SectorSize
Written(c) == (DOMAIN mem[c]) \cup (DOMAIN op.mem0[c])
C12_BlockRoundTrip ==
    /\ (/\ Returned /\ op.kind = "rw" /\ op.blk /\ op.read
        /\ SectorOf(op.addr0) < a_bytes \div SectorSize
        /\ prev.kind = "rw" /\ prev.blk /\ ~prev.read /\ prev.err = "none"
        /\ prev.addr = op.addr0
        /\ \A c \in Chips : ~prev.wip0[c])
            => ret = prev.buf
    /\ (/\ Returned /\ op.kind = "rw" /\ op.blk /\ ~op.read
        /\ \A c \in Chips : ~op.wip0[c])
            => \A c \in Chips : \A off \in Written(c) :
                    SectorOf(c * _SIZE + off) # SectorOf(op.addr0) =>
                        ReadCell(mem[c], off) = ReadCell(op.mem0[c], off)
    /\ (pc = "idle" /\ op.kind = "ioctl" /\ op.n = 4) =>
            ret = <<a_bytes \div SectorSize>>
    /\ (pc = "idle" /\ op.kind = "ioctl" /\ op.n = 5) =>
            ret = <<SectorSize>>

\* C17: progress of the transfer loop, for a range inside the array.  Each
\* pass gets 1 <= npage <= remaining length (assert npage > 0 never fails),
\* remaining + cursor = len and addr = start address + cursor hold
\* throughout, and a transfer that has returned has gone through exactly len
\* bytes in increasing address order.
IsData(e) == Opcode(e) \in {_READ, _WRITE}
FrameData(e) == IF Opcode(e) = _READ THEN e.miso ELSE BurstData(e)
RECURSIVE Moved(_)
Moved(l) == IF l = <<>> THEN <<>> ELSE Moved(SubSeq(l, 1, Len(l) - 1)) \o FrameData(l[Len(l)])
RwInside == op.kind = "rw" /\ RangeInside
C17_Accounting ==
    RwInside =>
        LET D == SelectSeq(log, IsData)
        IN  /\ op.nbytes + op.start = Len(op.buf)
            /\ op.addr = op.addr0 + op.start
            /\ pc # "idle" => (1 <= op.npage /\ op.npage <= op.nbytes)
            /\ err = "AssertionError" => (Len(log) > 0 /\ HasBP(log[Len(log)]))
            /\ \A i \in 1 .. Len(D) :
                D[i].chip * _SIZE + FrameAddr(D[i].mosi)
                    = op.addr0 + Len(Moved(SubSeq(D, 1, i - 1)))
            /\ Returned =>
                /\ op.nbytes = 0
                /\ Moved(D) = op.buf
\* C17 as stated: besides, the transfer can only end by returning with
\* nothing remaining, whatever the chips report while they clear WIP.
C17_TransferCompletes ==
    /\ C17_Accounting
    /\ (RwInside /\ pc = "idle") => (err = "none" /\ op.nbytes = 0)
\* C17 amended: with the driver running and every write cycle ending, a
\* transfer over a range inside the array ends, either returned with
\* nothing remaining or stopped by the assertion on a block-protect bit read
\* by a status poll.
RwEnded ==
    /\ pc = "idle"
    /\ \/ err = "none" /\ op.nbytes = 0
       \/ err = "AssertionError" /\ op.nbytes > 0 /\ HasBP(log[Len(log)])
C17_TransferEnds ==
    /\ []C17_Accounting
    /\ (RwInside /\ pc # "idle") ~> (RwInside /\ RwEnded)
\* A write of two segments has returned after the polls of both.
C17_Witness ==
    /\ RwInside /\ ~op.read /\ Returned
    /\ op.start = 2 /\ op.nbytes = 0 /\ op.npage = 1
    /\ Len(SelectSeq(log, IsData)) = 2

====
